---- MODULE Spec2Model ----
(***************************************************************************)
(* pynance/myfunctions.py: net present value, its derivative, the          *)
(* Newton-Raphson internal rate of return, present and future value and    *)
(* the bond price.                                                         *)
(*                                                                         *)
(* Numbers are Python floats without their rounding: a value is an exact   *)
(* rational, a sign and two natural numbers in lowest terms, and a natural *)
(* number is its sequence of base-1000 digits, least significant first, so *)
(* that no product is cut off by the width of an integer. The range of a   *)
(* float is kept where Python reports it: a power "**" whose value reaches  *)
(* 2^1024 raises OverflowError; "/", "*" and "+" never raise it, and a     *)
(* product that reaches 2^1024 is inf, written with the denominator 0.     *)
(***************************************************************************)
EXTENDS Integers, Sequences, FiniteSets, TLC

----------------------------------------------------------------------------
(* Natural numbers of any size                                             *)

Base == 10 ^ 3

Max(m, n) == IF m >= n THEN m ELSE n

Min(m, n) == IF m <= n THEN m ELSE n

\* the highest index of a set of indices
Top(idx) == CHOOSE j \in idx : \A k \in idx : k <= j

TrimTo(s, nz) == IF nz = {} THEN <<>> ELSE SubSeq(s, 1, Top(nz))

\* without the leading zero digits
Trim(s) == TrimTo(s, {j \in 1..Len(s) : s[j] # 0})

RECURSIVE MagOf(_)
MagOf(n) == IF n = 0 THEN <<>> ELSE <<n % Base>> \o MagOf(n \div Base)

Limb(a, j) == IF j <= Len(a) THEN a[j] ELSE 0

\* a digit and the carry out of it; the carry of a negative x is negative
Digit(x) == [d |-> <<x % Base>>, c |-> x \div Base]

Join(L, H) == [d |-> L.d \o H.d, c |-> H.c]

\* the digits lo..hi of a * k + b * m with the carry into lo, and the carry
\* out of hi
RECURSIVE LinSeg(_, _, _, _, _, _, _)
RECURSIVE LinHigh(_, _, _, _, _, _, _)
LinSeg(a, k, b, m, lo, hi, carry) ==
    IF lo = hi
    THEN Digit(Limb(a, lo) * k + Limb(b, lo) * m + carry)
    ELSE LinHigh(a, k, b, m, (lo + hi) \div 2, hi,
                 LinSeg(a, k, b, m, lo, (lo + hi) \div 2, carry))

LinHigh(a, k, b, m, mid, hi, L) == Join(L, LinSeg(a, k, b, m, mid + 1, hi, L.c))

WithCarry(r) == IF r.c = 0 THEN r.d ELSE Append(r.d, r.c)

\* a * k + b * m for digits k and m, where the result is not negative
MagLin(a, k, b, m) ==
    IF a = <<>> /\ b = <<>> THEN <<>>
    ELSE Trim(WithCarry(LinSeg(a, k, b, m, 1, Max(Len(a), Len(b)), 0)))

MagAdd(a, b) == IF a = <<>> THEN b ELSE IF b = <<>> THEN a ELSE MagLin(a, 1, b, 1)

\* a - b, for a >= b
MagSub(a, b) == MagLin(a, 1, b, -1)

\* a * k for one digit k
MagMulLimb(a, k) == IF k = 0 THEN <<>> ELSE IF k = 1 THEN a ELSE MagLin(a, k, <<>>, 0)

CmpAt(a, b, diff) == IF diff = {} THEN 0 ELSE IF a[Top(diff)] < b[Top(diff)] THEN -1 ELSE 1

\* -1, 0 or 1 as a < b, a = b or a > b
MagCmp(a, b) ==
    IF Len(a) < Len(b) THEN -1
    ELSE IF Len(a) > Len(b) THEN 1
    ELSE CmpAt(a, b, {j \in 1..Len(a) : a[j] # b[j]})

\* a * Base^k
ShiftBy(a, k) == IF a = <<>> THEN a ELSE [j \in 1..k |-> 0] \o a

\* a times the digits lo..hi of b, each at its place
RECURSIVE MulSeg(_, _, _, _)
MulSeg(a, b, lo, hi) ==
    IF lo = hi THEN ShiftBy(MagMulLimb(a, b[lo]), lo - 1)
    ELSE MagAdd(MulSeg(a, b, lo, (lo + hi) \div 2), MulSeg(a, b, (lo + hi) \div 2 + 1, hi))

RECURSIVE MagMul(_, _)
MagMul(a, b) ==
    IF a = <<>> \/ b = <<>> THEN <<>>
    ELSE IF Len(a) = 1 /\ Len(b) = 1 THEN MagOf(a[1] * b[1])
    ELSE IF Len(a) >= Len(b) THEN MulSeg(a, b, 1, Len(b))
    ELSE MagMul(b, a)

\* the digits of a from its most significant down to position k, as an
\* integer (at most three digits, below Base^3)
TopVal(a, k) ==
    IF Len(a) - k = 0 THEN a[Len(a)]
    ELSE IF Len(a) - k = 1 THEN a[Len(a)] * Base + a[Len(a) - 1]
    ELSE (a[Len(a)] * Base + a[Len(a) - 1]) * Base + a[Len(a) - 2]

\* the largest d in lo..hi with d * b <= cur, given lo * b <= cur
RECURSIVE QuoSearch(_, _, _, _)
QuoSearch(cur, b, lo, hi) ==
    IF lo >= hi THEN lo
    ELSE IF MagCmp(MagMulLimb(b, (lo + hi + 1) \div 2), cur) <= 0
    THEN QuoSearch(cur, b, (lo + hi + 1) \div 2, hi)
    ELSE QuoSearch(cur, b, lo, (lo + hi + 1) \div 2 - 1)

\* the leading digits ct of cur and bt of b bound the quotient digit from
\* both sides
QuoBetween(cur, b, ct, bt) == QuoSearch(cur, b, ct \div (bt + 1), Min(ct \div bt, Base - 1))

\* floor(cur / b) for 0 < b and cur < b * Base
QuoLimb(cur, b) ==
    IF MagCmp(cur, b) < 0 THEN 0
    ELSE IF Len(cur) <= 3 THEN TopVal(cur, 1) \div TopVal(b, 1)
    ELSE QuoBetween(cur, b, TopVal(cur, Len(b) - 1), TopVal(b, Len(b) - 1))

\* the quotient digit d of cur / b and what is left of cur
Take(cur, b, d) == [q |-> <<d>>, r |-> MagLin(cur, 1, b, -d)]

DivDigit(cur, b) == Take(cur, b, QuoLimb(cur, b))

DivJoin(H, L) == [q |-> H.q \o L.q, r |-> L.r]

\* long division of the digits lo..hi of a, most significant first, into the
\* remainder rem of the digits above hi: the quotient digits, most significant
\* first, and the remainder
RECURSIVE DivSeg(_, _, _, _, _)
RECURSIVE DivLow(_, _, _, _, _)
DivSeg(a, b, lo, hi, rem) ==
    IF lo = hi
    THEN DivDigit(Trim(<<a[lo]>> \o rem), b)
    ELSE DivLow(a, b, lo, (lo + hi) \div 2, DivSeg(a, b, (lo + hi) \div 2 + 1, hi, rem))

DivLow(a, b, lo, mid, H) == DivJoin(H, DivSeg(a, b, lo, mid, H.r))

Reverse(s) == [j \in 1..Len(s) |-> s[Len(s) + 1 - j]]

Quotient(res) == [q |-> Trim(Reverse(res.q)), r |-> res.r]

\* [q, r] with a = q * b + r and r < b, for b > 0
MagDivMod(a, b) ==
    IF MagCmp(a, b) < 0 THEN [q |-> <<>>, r |-> a]
    ELSE Quotient(DivSeg(a, b, 1, Len(a) - Len(b) + 1,
                         SubSeq(a, Len(a) - Len(b) + 2, Len(a))))

RECURSIVE IntGcd(_, _)
IntGcd(m, n) == IF n = 0 THEN m ELSE IntGcd(n, m % n)

\* Euclid's algorithm on the pair st, 2^k steps of it at most
RECURSIVE GcdSteps(_, _)
GcdSteps(st, k) ==
    IF st.b = <<>> THEN st
    ELSE IF st.b = <<1>> THEN [a |-> <<1>>, b |-> <<>>]
    ELSE IF Len(st.a) <= 3 /\ Len(st.b) <= 3
    THEN [a |-> MagOf(IntGcd(TopVal(st.a, 1), TopVal(st.b, 1))), b |-> <<>>]
    ELSE IF k = 0 THEN [a |-> st.b, b |-> MagDivMod(st.a, st.b).r]
    ELSE GcdSteps(GcdSteps(st, k - 1), k - 1)

\* the least k with 2^k >= n
RECURSIVE Log2(_)
Log2(n) == IF n <= 1 THEN 0 ELSE 1 + Log2((n + 1) \div 2)

\* Euclid's algorithm ends within five steps for each decimal digit of the
\* smaller number (Lame), that is fifteen for each of its base-1000 digits
MagGcd(a, b) == GcdSteps([a |-> a, b |-> b], Log2(15 * Len(b) + 2)).a

\* a / b where b divides a
MagDiv(a, b) ==
    IF b = <<1>> THEN a
    ELSE IF Len(a) <= 3 THEN MagOf(TopVal(a, 1) \div TopVal(b, 1))
    ELSE MagDivMod(a, b).q

\* a and then b times itself
TimesSquare(a, b) == MagMul(a, MagMul(b, b))

\* a^e by repeated squaring
RECURSIVE MagPow(_, _)
MagPow(a, e) ==
    IF e = 0 THEN <<1>>
    ELSE TimesSquare(IF e % 2 = 0 THEN <<1>> ELSE a, MagPow(a, e \div 2))

----------------------------------------------------------------------------
(* Rational numbers in lowest terms                                        *)

Zero == [sgn |-> 0, num |-> <<>>, den |-> <<1>>]

One == [sgn |-> 1, num |-> <<1>>, den |-> <<1>>]

Pack(sgn, p) == [sgn |-> sgn, num |-> p[1], den |-> p[2]]

\* sgn * num / den with the common divisor g taken out
Lowest(sgn, num, den, g) == Pack(sgn, [k \in 1..2 |-> MagDiv(<<num, den>>[k], g)])

\* sgn * num / den, reduced
Rat(sgn, num, den) ==
    IF num = <<>> \/ sgn = 0 THEN Zero ELSE Lowest(sgn, num, den, MagGcd(num, den))

Sign(n) == IF n < 0 THEN -1 ELSE IF n > 0 THEN 1 ELSE 0

Magnitude(n) == IF n < 0 THEN -n ELSE n

\* p / q for integers p and q > 0
Frac(p, q) == Rat(Sign(p), MagOf(Magnitude(p)), MagOf(q))

FromInt(n) == [sgn |-> Sign(n), num |-> MagOf(Magnitude(n)), den |-> <<1>>]

RatNeg(x) == [x EXCEPT !.sgn = -x.sgn]

RatAbs(x) == [x EXCEPT !.sgn = IF x.sgn = 0 THEN 0 ELSE 1]

\* the products p[k] * q[k], the quotients p[k] / q[k], the divisors of p[k], q[k]
Products(p, q) == [k \in 1..Len(p) |-> MagMul(p[k], q[k])]

Quotients(p, q) == [k \in 1..Len(p) |-> MagDiv(p[k], q[k])]

Divisors(p, q) == [k \in 1..Len(p) |-> MagGcd(p[k], q[k])]

\* The sum and the product are reduced as Python's Fraction reduces them: by
\* the common divisors of the operands' parts, never of a product.

AddOut(sgn, t, s, q) == [sgn |-> sgn, num |-> q[1], den |-> MagMul(s, q[2])]

AddLowest(sgn, t, db, s, g2) == AddOut(sgn, t, s, Quotients(<<t, db>>, <<g2, g2>>))

\* sgn * t / (s * db), where the common divisor of t and s * db divides g
AddTotal(sgn, t, db, g, s) == AddLowest(sgn, t, db, s, MagGcd(t, g))

\* sx * a + sy * b over s * db, where c compares a with b
AddSigned(sx, sy, db, g, s, a, b, c) ==
    IF sx # sy /\ c = 0 THEN Zero
    ELSE AddTotal(IF sx = sy \/ c > 0 THEN sx ELSE sy,
                  MagLin(IF c >= 0 THEN a ELSE b, 1, IF c >= 0 THEN b ELSE a,
                         IF sx = sy THEN 1 ELSE -1),
                  db, g, s)

AddSum(sx, sy, db, g, s, p) == AddSigned(sx, sy, db, g, s, p[1], p[2], MagCmp(p[1], p[2]))

\* q[1] = x.den / g and q[2] = y.den / g
AddScaled(x, y, g, q) ==
    AddSum(x.sgn, y.sgn, y.den, g, q[1], Products(<<x.num, y.num>>, <<q[2], q[1]>>))

AddOver(x, y, g) == AddScaled(x, y, g, Quotients(<<x.den, y.den>>, <<g, g>>))

RatAdd(x, y) ==
    IF x.sgn = 0 THEN y
    ELSE IF y.sgn = 0 THEN x
    ELSE AddOver(x, y, MagGcd(x.den, y.den))

RatSub(x, y) == RatAdd(x, RatNeg(y))

MulOut(sgn, p) == [sgn |-> sgn, num |-> p[1], den |-> p[2]]

MulParts(sgn, q) == MulOut(sgn, Products(<<q[1], q[2]>>, <<q[3], q[4]>>))

\* g[1] divides x.num and y.den, g[2] divides y.num and x.den
MulReduced(sgn, x, y, g) ==
    MulParts(sgn, Quotients(<<x.num, y.den, y.num, x.den>>, <<g[1], g[1], g[2], g[2]>>))

RatMul(x, y) ==
    IF x.sgn = 0 \/ y.sgn = 0 THEN Zero
    ELSE MulReduced(x.sgn * y.sgn, x, y, Divisors(<<x.num, y.num>>, <<y.den, x.den>>))

\* 1 / y for y # 0
RatInv(y) == [sgn |-> y.sgn, num |-> y.den, den |-> y.num]

\* x / y for y # 0
RatDiv(x, y) == RatMul(x, RatInv(y))

\* x ** e for an integer e >= 0; 0 ** 0 is 1, as in Python
RatPow(x, e) ==
    IF e = 0 THEN One
    ELSE IF x.sgn = 0 THEN Zero
    ELSE Pack(IF x.sgn < 0 /\ e % 2 = 1 THEN -1 ELSE 1,
              [k \in 1..2 |-> MagPow(<<x.num, x.den>>[k], e)])

CmpCross(p) == MagCmp(p[1], p[2])

\* -1, 0 or 1 as x < y, x = y or x > y
RatCmp(x, y) ==
    IF x.sgn # y.sgn THEN (IF x.sgn < y.sgn THEN -1 ELSE 1)
    ELSE IF x.sgn = 0 THEN 0
    ELSE x.sgn * CmpCross(Products(<<x.num, y.num>>, <<y.den, x.den>>))

RatLt(x, y) == RatCmp(x, y) < 0

RatLe(x, y) == RatCmp(x, y) <= 0

----------------------------------------------------------------------------
(* What a call gives back: a value, or the exception it raises             *)

NoResult == [kind |-> "none", msg |-> "", fmt |-> <<>>, value |-> Zero]

Return(v) == [kind |-> "return", msg |-> "", fmt |-> <<>>, value |-> v]

Raise(kind, msg) == [kind |-> kind, msg |-> msg, fmt |-> <<>>, value |-> Zero]

\* an f-string message: the text and the values formatted into it
RaiseFmt(kind, msg, vals) == [kind |-> kind, msg |-> msg, fmt |-> vals, value |-> Zero]

\* a cash_flows argument: a list of numbers, or an object that is no list
List(items) == [list |-> TRUE, items |-> items]

NotAList == [list |-> FALSE, items |-> <<>>]

----------------------------------------------------------------------------
(* npv and npv_derivative                                                  *)

\* (1 + rate) ** t
Discount(rate, t) == RatPow(RatAdd(One, rate), t)

\* 2^1024, the first power of two a float cannot hold
FloatLimit == MagPow(MagOf(2 ^ 16), 64)

\* a power out of the range of a float: "**" raises OverflowError
OutOfRange(x) ==
    IF Len(x.num) < Len(x.den) + Len(FloatLimit) - 1 THEN FALSE
    ELSE MagCmp(x.num, MagMul(FloatLimit, x.den)) >= 0

Overflow == Raise("OverflowError", "(34, 'Numerical result out of range')")

\* float("inf") and float("-inf")
Infinity(sgn) == [sgn |-> sgn, num |-> <<1>>, den |-> <<>>]

IsInfinite(x) == x.den = <<>>

\* x * y of two finite floats: inf with the sign of the product when it is out
\* of range
FloatProduct(p) == IF OutOfRange(p) THEN Infinity(p.sgn) ELSE p

FloatMul(x, y) == FloatProduct(RatMul(x, y))

\* x / y of floats, y finite and not 0: inf / y is inf with the sign of the
\* quotient
FloatDiv(x, y) == IF IsInfinite(x) THEN Infinity(x.sgn * y.sgn) ELSE RatDiv(x, y)

\* sum(): 0 + s[1] + ... + s[n]
RECURSIVE Sum(_)
Sum(s) == IF s = <<>> THEN Zero ELSE RatAdd(Sum(SubSeq(s, 1, Len(s) - 1)), s[Len(s)])

\* t runs over 0..n-1 as enumerate() counts, the list is indexed from 1 here
npv(rate, cash_flows) ==
    IF ~cash_flows.list
    THEN Raise("TypeError", "Cash flows must be a list or numpy array.")
    ELSE IF RatLt(rate, FromInt(-1))
    THEN Raise("ValueError", "Rate must be greater than or equal to -1.")
    ELSE IF \E t \in 0..(Len(cash_flows.items) - 1) : Discount(rate, t) = Zero
    THEN Raise("ValueError", "Rate cannot be -1.")
    ELSE IF \E t \in 0..(Len(cash_flows.items) - 1) : OutOfRange(Discount(rate, t))
    THEN Overflow
    ELSE Return(Sum([k \in 1..Len(cash_flows.items) |->
                        RatDiv(cash_flows.items[k], Discount(rate, k - 1))]))

npv_derivative(rate, cash_flows) ==
    IF ~cash_flows.list
    THEN Raise("TypeError", "Cash flows must be a list or numpy array.")
    ELSE IF RatLt(rate, FromInt(-1))
    THEN Raise("ValueError", "Rate must be greater than or equal to -1.")
    ELSE IF \E t \in 0..(Len(cash_flows.items) - 1) : Discount(rate, t + 1) = Zero
    THEN Raise("ValueError", "Rate cannot be -1.")
    ELSE IF \E t \in 0..(Len(cash_flows.items) - 1) : OutOfRange(Discount(rate, t + 1))
    THEN Overflow
    ELSE Return(Sum([k \in 1..Len(cash_flows.items) |->
                        RatDiv(RatMul(FromInt(-(k - 1)), cash_flows.items[k]),
                               Discount(rate, k))]))

----------------------------------------------------------------------------
(* present_value, future_value and bond_price                              *)

present_value(rate, fv, periods) ==
    IF periods < 0 THEN Raise("ValueError", "Periods cannot be negative.")
    ELSE IF RatLt(rate, Zero) THEN Raise("ValueError", "Rate cannot be negative.")
    ELSE IF OutOfRange(Discount(rate, periods)) THEN Overflow
    ELSE IF Discount(rate, periods) = Zero THEN Raise("ValueError", "Rate cannot be -1.")
    ELSE Return(FloatDiv(fv, Discount(rate, periods)))

\* a faulty variant: simple interest in place of compound interest
future_value_simple(rate, pv, periods) ==
    IF periods < 0 THEN Raise("ValueError", "Periods cannot be negative.")
    ELSE IF RatLt(rate, Zero) THEN Raise("ValueError", "Rate cannot be negative.")
    ELSE Return(RatMul(pv, RatAdd(One, RatMul(rate, FromInt(periods)))))

future_value(rate, pv, periods) ==
    IF periods < 0 THEN Raise("ValueError", "Periods cannot be negative.")
    ELSE IF RatLt(rate, Zero) THEN Raise("ValueError", "Rate cannot be negative.")
    ELSE IF OutOfRange(Discount(rate, periods))
    THEN Raise("ValueError", "Result is too large to handle.")
    ELSE Return(FloatMul(pv, Discount(rate, periods)))

bond_price(face_value, coupon_rate, periods, discount_rate) ==
    IF RatLe(face_value, Zero) THEN Raise("ValueError", "Face value must be positive.")
    ELSE IF RatLt(coupon_rate, Zero) THEN Raise("ValueError", "Coupon rate cannot be negative.")
    ELSE IF periods <= 0 THEN Raise("ValueError", "Periods must be positive.")
    ELSE IF RatLt(discount_rate, Zero)
    THEN Raise("ValueError", "Discount rate cannot be negative.")
    ELSE IF \E t \in 1..periods : Discount(discount_rate, t) = Zero
    THEN Raise("ValueError", "Discount rate cannot be -1.")
    ELSE IF \E t \in 1..periods : OutOfRange(Discount(discount_rate, t))
    THEN Overflow
    ELSE Return(RatAdd(
            Sum([t \in 1..periods |->
                    RatDiv(RatMul(face_value, coupon_rate), Discount(discount_rate, t))]),
            RatDiv(face_value, Discount(discount_rate, periods))))

----------------------------------------------------------------------------
(* internal_rate_of_return: the entry checks and the parts of the loop     *)

DefaultInitialGuess == Frac(1, 10)

DefaultTolerance == Frac(1, 10 ^ 6)

DefaultMaxIterations == 1000

\* a faulty variant: an initial guess of exactly -1 passes the entry checks
ValidateLax(cash_flows, initial_guess, tolerance, max_iterations) ==
    IF ~cash_flows.list
    THEN Raise("TypeError", "Cash flows must be a list or numpy array.")
    ELSE IF RatLt(initial_guess, FromInt(-1))
    THEN Raise("ValueError", "Initial guess must be greater than -1.")
    ELSE IF RatLe(tolerance, Zero)
    THEN Raise("ValueError", "Tolerance must be a positive number.")
    ELSE IF max_iterations <= 0
    THEN Raise("ValueError", "Maximum iterations must be a positive integer.")
    ELSE NoResult

\* the four entry checks, in the order of the code; NoResult when all pass
Validate(cash_flows, initial_guess, tolerance, max_iterations) ==
    IF ~cash_flows.list
    THEN Raise("TypeError", "Cash flows must be a list or numpy array.")
    ELSE IF RatLe(initial_guess, FromInt(-1))
    THEN Raise("ValueError", "Initial guess must be greater than -1.")
    ELSE IF RatLe(tolerance, Zero)
    THEN Raise("ValueError", "Tolerance must be a positive number.")
    ELSE IF max_iterations <= 0
    THEN Raise("ValueError", "Maximum iterations must be a positive integer.")
    ELSE NoResult

\* faulty variants: one pass too many; an index that does not advance
InRangeInclusive(k, max_iterations) == k <= max_iterations

NextIndexStuck(k) == k

\* for i in range(max_iterations): is there another pass, and its index
InRange(k, max_iterations) == k < max_iterations

NextIndex(k) == k + 1

\* a faulty variant: the zero derivative goes unnoticed
NeverZero(npv_deriv) == FALSE

\* if npv_deriv == 0
DerivativeIsZero(npv_deriv) == npv_deriv = Zero

\* a faulty variant: the Newton update with the wrong sign
NewtonStepForward(r, npv_value, npv_deriv) == RatAdd(r, RatDiv(npv_value, npv_deriv))

\* new_rate = rate - npv_value / npv_deriv
NewtonStep(r, npv_value, npv_deriv) == RatSub(r, RatDiv(npv_value, npv_deriv))

\* a faulty variant: the step compared without its absolute value
ConvergedSigned(new_rate, r, tolerance) == RatLt(RatSub(new_rate, r), tolerance)

\* if abs(new_rate - rate) < tolerance
Converged(new_rate, r, tolerance) == RatLt(RatAbs(RatSub(new_rate, r)), tolerance)

DidNotConvergeText == "IRR did not converge after {max_iterations} iterations."

DidNotConverge(max_iterations) == RaiseFmt("ValueError", DidNotConvergeText, <<max_iterations>>)

ZeroDerivative ==
    Raise("ZeroDivisionError", "Derivative is zero; unable to continue iteration.")

----------------------------------------------------------------------------
(* The arguments the calls are made with                                   *)

MaxLen == 3

MaxLimbs == 4

MaxIterations == 3

MaxPeriods == 3

Amounts == {FromInt(-2), One}

\* the series of the repository's tests, one a thousand million wide, and one
\* of zeros
TestSeries == <<FromInt(-1000), FromInt(300), FromInt(400), FromInt(500), FromInt(600)>>

LargeSeries == <<FromInt(-(10 ^ 9)), FromInt(1100000990)>>

ZeroSeries == <<Zero, Zero>>

CashFlowLists ==
    UNION {[1..n -> Amounts] : n \in 0..MaxLen} \cup {TestSeries, LargeSeries, ZeroSeries}

CashFlowInputs == {NotAList} \cup {List(s) : s \in CashFlowLists}

\* 1e200: its square is out of the range of a float
Huge == RatPow(FromInt(10), 200)

Rates == {FromInt(-2), FromInt(-1), Frac(-1, 2), Zero, Frac(1, 10), One, Huge}

Guesses == {FromInt(-2), FromInt(-1), Zero, DefaultInitialGuess, One}

Tolerances == {Frac(-1, 100), Zero, DefaultTolerance, Frac(1, 2)}

IterationLimits == ((-1)..MaxIterations) \cup {DefaultMaxIterations}

GrowthRates == {Frac(-1, 20), Zero, Frac(1, 20), One, Huge}

Sums == {FromInt(-2), Zero, Frac(1, 3), FromInt(1000), Huge}

PeriodCounts == (-1)..MaxPeriods

FaceValues == {FromInt(-1000), Zero, FromInt(1000)}

CouponRates == {Frac(-1, 20), Zero, Frac(1, 20)}

DiscountRates == {FromInt(-1), Frac(-3, 100), Zero, Frac(3, 100), Huge}

\* the loop is followed while the trial rate fits in MaxLimbs digits
Small(x) == Len(x.num) <= MaxLimbs /\ Len(x.den) <= MaxLimbs

----------------------------------------------------------------------------
(* State                                                                   *)

VARIABLES
    pc,           \* "idle": no call made; "loop": inside the loop of
                  \* internal_rate_of_return; "done": the call has ended
    fn,           \* the function called
    args,         \* its arguments
    result,       \* what the call gave back
    prev,         \* the arguments and result of the call made before
    rate,         \* internal_rate_of_return: the trial rate
    i,            \* internal_rate_of_return: the loop index
    npv_evals,    \* calls of npv made so far
    deriv_evals,  \* calls of npv_derivative made so far
    steps         \* internal_rate_of_return: rate and new_rate of each Newton update

vars == <<pc, fn, args, result, prev, rate, i, npv_evals, deriv_evals, steps>>

NoCall == [fn |-> "none", args |-> <<>>, result |-> NoResult]

Init ==
    /\ pc = "idle"
    /\ fn = "none"
    /\ args = <<>>
    /\ result = NoResult
    /\ prev = NoCall
    /\ rate = Zero
    /\ i = 0
    /\ npv_evals = 0
    /\ deriv_evals = 0
    /\ steps = <<>>

----------------------------------------------------------------------------
(* Calls of the functions that have no loop                                *)

Call_npv ==
    /\ pc = "idle"
    /\ \E r \in Rates, cf \in CashFlowInputs :
        /\ fn' = "npv"
        /\ args' = [rate |-> r, cash_flows |-> cf]
        /\ result' = npv(r, cf)
    /\ pc' = "done"
    /\ npv_evals' = npv_evals + 1
    /\ UNCHANGED <<prev, rate, i, deriv_evals, steps>>

Call_npv_derivative ==
    /\ pc = "idle"
    /\ \E r \in Rates, cf \in CashFlowInputs :
        /\ fn' = "npv_derivative"
        /\ args' = [rate |-> r, cash_flows |-> cf]
        /\ result' = npv_derivative(r, cf)
    /\ pc' = "done"
    /\ deriv_evals' = deriv_evals + 1
    /\ UNCHANGED <<prev, rate, i, npv_evals, steps>>

Call_future_value ==
    /\ pc = "idle"
    /\ \E r \in GrowthRates, pv \in Sums, n \in PeriodCounts :
        /\ fn' = "future_value"
        /\ args' = [rate |-> r, present_value |-> pv, periods |-> n]
        /\ result' = future_value(r, pv, n)
    /\ pc' = "done"
    /\ UNCHANGED <<prev, rate, i, npv_evals, deriv_evals, steps>>

Call_present_value ==
    /\ pc = "idle"
    /\ \E r \in GrowthRates, fv \in Sums, n \in PeriodCounts :
        /\ fn' = "present_value"
        /\ args' = [rate |-> r, future_value |-> fv, periods |-> n]
        /\ result' = present_value(r, fv, n)
    /\ pc' = "done"
    /\ UNCHANGED <<prev, rate, i, npv_evals, deriv_evals, steps>>

\* present_value called with the value a call of future_value returned
Call_present_value_of_result ==
    /\ pc = "done"
    /\ fn = "future_value"
    /\ result.kind = "return"
    /\ \E r \in GrowthRates, n \in PeriodCounts :
        /\ args' = [rate |-> r, future_value |-> result.value, periods |-> n]
        /\ result' = present_value(r, result.value, n)
    /\ fn' = "present_value"
    /\ prev' = [fn |-> fn, args |-> args, result |-> result]
    /\ UNCHANGED <<pc, rate, i, npv_evals, deriv_evals, steps>>

Call_bond_price ==
    /\ pc = "idle"
    /\ \E fv \in FaceValues, c \in CouponRates, n \in PeriodCounts, d \in DiscountRates :
        /\ fn' = "bond_price"
        /\ args' = [face_value |-> fv, coupon_rate |-> c, periods |-> n, discount_rate |-> d]
        /\ result' = bond_price(fv, c, n, d)
    /\ pc' = "done"
    /\ UNCHANGED <<prev, rate, i, npv_evals, deriv_evals, steps>>

----------------------------------------------------------------------------
(* internal_rate_of_return                                                 *)

\* the call, up to the first pass of the loop: the entry checks, rate = initial_guess
Irr_call ==
    /\ pc = "idle"
    /\ \E cf \in CashFlowInputs, g \in Guesses, tol \in Tolerances, m \in IterationLimits :
        LET v == Validate(cf, g, tol, m)
        IN  /\ args' = [cash_flows |-> cf, initial_guess |-> g,
                        tolerance |-> tol, max_iterations |-> m]
            /\ result' = v
            /\ pc' = IF v.kind = "none" THEN "loop" ELSE "done"
            /\ rate' = IF v.kind = "none" THEN g ELSE rate
    /\ fn' = "internal_rate_of_return"
    /\ UNCHANGED <<prev, i, npv_evals, deriv_evals, steps>>

\* one pass of the loop body
Irr_iterate ==
    /\ pc = "loop"
    /\ InRange(i, args.max_iterations)
    /\ Small(rate)
    /\ LET npv_value == npv(rate, args.cash_flows)
           npv_deriv == npv_derivative(rate, args.cash_flows)
       IN  IF npv_value.kind # "return"
           THEN /\ result' = npv_value
                /\ pc' = "done"
                /\ npv_evals' = npv_evals + 1
                /\ UNCHANGED <<rate, i, deriv_evals, steps>>
           ELSE IF npv_deriv.kind # "return"
           THEN /\ result' = npv_deriv
                /\ pc' = "done"
                /\ npv_evals' = npv_evals + 1
                /\ deriv_evals' = deriv_evals + 1
                /\ UNCHANGED <<rate, i, steps>>
           ELSE IF DerivativeIsZero(npv_deriv.value)
           THEN /\ result' = ZeroDerivative
                /\ pc' = "done"
                /\ npv_evals' = npv_evals + 1
                /\ deriv_evals' = deriv_evals + 1
                /\ UNCHANGED <<rate, i, steps>>
           ELSE LET new_rate == NewtonStep(rate, npv_value.value, npv_deriv.value)
                IN  /\ npv_evals' = npv_evals + 1
                    /\ deriv_evals' = deriv_evals + 1
                    /\ steps' = Append(steps, [rate |-> rate, new_rate |-> new_rate])
                    /\ IF Converged(new_rate, rate, args.tolerance)
                       THEN /\ result' = Return(new_rate)
                            /\ pc' = "done"
                            /\ UNCHANGED <<rate, i>>
                       ELSE /\ rate' = new_rate
                            /\ i' = NextIndex(i)
                            /\ UNCHANGED <<result, pc>>
    /\ UNCHANGED <<fn, args, prev>>

\* the loop has run out of passes
Irr_exhausted ==
    /\ pc = "loop"
    /\ ~InRange(i, args.max_iterations)
    /\ result' = DidNotConverge(args.max_iterations)
    /\ pc' = "done"
    /\ UNCHANGED <<fn, args, prev, rate, i, npv_evals, deriv_evals, steps>>

----------------------------------------------------------------------------

Next ==
    \/ Call_npv
    \/ Call_npv_derivative
    \/ Call_future_value
    \/ Call_present_value
    \/ Call_present_value_of_result
    \/ Call_bond_price
    \/ Irr_call
    \/ Irr_iterate
    \/ Irr_exhausted

Spec == Init /\ [][Next]_vars

----------------------------------------------------------------------------
(* Properties of internal_rate_of_return                                   *)

\* C1: a call of internal_rate_of_return with an invalid configuration has
\* ended, with TypeError when cash_flows is no list and with the ValueError of
\* the first failing check when initial_guess <= -1, tolerance <= 0 or
\* max_iterations <= 0; npv and npv_derivative have not been evaluated, no pass
\* of the loop has been made and no trial rate has been taken.
C1_InvalidConfigurationFailsFast ==
    fn = "internal_rate_of_return" =>
        /\ ~args.cash_flows.list =>
              /\ pc = "done"
              /\ result = Raise("TypeError", "Cash flows must be a list or numpy array.")
        /\ (/\ args.cash_flows.list
            /\ \/ RatLe(args.initial_guess, FromInt(-1))
               \/ RatLe(args.tolerance, Zero)
               \/ args.max_iterations <= 0) =>
              /\ pc = "done"
              /\ result.kind = "ValueError"
              /\ result.msg =
                    IF RatLe(args.initial_guess, FromInt(-1))
                    THEN "Initial guess must be greater than -1."
                    ELSE IF RatLe(args.tolerance, Zero)
                    THEN "Tolerance must be a positive number."
                    ELSE "Maximum iterations must be a positive integer."
        /\ (\/ ~args.cash_flows.list
            \/ RatLe(args.initial_guess, FromInt(-1))
            \/ RatLe(args.tolerance, Zero)
            \/ args.max_iterations <= 0) =>
              /\ npv_evals = 0
              /\ deriv_evals = 0
              /\ i = 0
              /\ steps = <<>>
              /\ rate = Zero

\* max_iterations = 0 with everything else valid has been rejected
C1_Witness ==
    /\ fn = "internal_rate_of_return"
    /\ pc = "done"
    /\ args.cash_flows.list
    /\ RatLt(FromInt(-1), args.initial_guess)
    /\ RatLt(Zero, args.tolerance)
    /\ args.max_iterations = 0
    /\ result.msg = "Maximum iterations must be a positive integer."

\* C2: the passes of the loop start from initial_guess, each from the new rate
\* of the one before, and compute new_rate = rate - npv(rate) /
\* npv_derivative(rate); a pass has |new_rate - rate| < tolerance exactly when
\* it is the last pass and the call has returned its new_rate, so every earlier
\* step was >= tolerance; and a call that has returned has made such a pass.
C2_ReturnsAtFirstSmallStep ==
    fn = "internal_rate_of_return" =>
        /\ \A k \in 1..Len(steps) :
              /\ steps[k].rate = IF k = 1 THEN args.initial_guess ELSE steps[k - 1].new_rate
              /\ steps[k].new_rate =
                    RatSub(steps[k].rate,
                           RatDiv(npv(steps[k].rate, args.cash_flows).value,
                                  npv_derivative(steps[k].rate, args.cash_flows).value))
              /\ RatLt(RatAbs(RatSub(steps[k].new_rate, steps[k].rate)), args.tolerance)
                    <=> /\ k = Len(steps)
                        /\ pc = "done"
                        /\ result = Return(steps[k].new_rate)
        /\ result.kind = "return" =>
              /\ pc = "done"
              /\ steps # <<>>
              /\ result.value = steps[Len(steps)].new_rate

\* a rate has been returned by the third pass or a later one
C2_Witness ==
    /\ fn = "internal_rate_of_return"
    /\ pc = "done"
    /\ result.kind = "return"
    /\ Len(steps) >= 3

\* C3: a call that has failed with "IRR did not converge ..." has made exactly
\* max_iterations passes, none with a step below tolerance, and its message
\* carries max_iterations; and a call that has ended after max_iterations
\* passes, the last of them with a step >= tolerance, has failed so.
C3_DidNotConvergeAfterMaxIterations ==
    fn = "internal_rate_of_return" =>
        /\ (result.kind = "ValueError" /\ result.msg = DidNotConvergeText) =>
              /\ pc = "done"
              /\ result.fmt = <<args.max_iterations>>
              /\ Len(steps) = args.max_iterations
              /\ i = args.max_iterations
              /\ npv_evals = args.max_iterations
              /\ deriv_evals = args.max_iterations
              /\ \A k \in 1..Len(steps) :
                    ~RatLt(RatAbs(RatSub(steps[k].new_rate, steps[k].rate)), args.tolerance)
        /\ (/\ pc = "done"
            /\ args.max_iterations > 0
            /\ Len(steps) = args.max_iterations
            /\ ~RatLt(RatAbs(RatSub(steps[Len(steps)].new_rate, steps[Len(steps)].rate)),
                      args.tolerance)) =>
              result = [kind |-> "ValueError", msg |-> DidNotConvergeText,
                        fmt |-> <<args.max_iterations>>, value |-> Zero]

\* three passes were allowed and made, and the call did not converge
C3_Witness ==
    /\ fn = "internal_rate_of_return"
    /\ pc = "done"
    /\ args.max_iterations = 3
    /\ Len(steps) = 3
    /\ result.msg = DidNotConvergeText

\* C4: a call that has failed with ZeroDivisionError ended in a pass where
\* npv_derivative(rate) is 0, without a new rate from that pass; no new rate was
\* ever computed from a zero derivative; and a series of length 1 never gets
\* past its first pass, where it ends with that failure.
C4_ZeroDerivativeIsFatal ==
    fn = "internal_rate_of_return" =>
        /\ result.kind = "ZeroDivisionError" =>
              /\ pc = "done"
              /\ result.msg = "Derivative is zero; unable to continue iteration."
              /\ npv_derivative(rate, args.cash_flows) = Return(Zero)
              /\ Len(steps) = i
              /\ npv_evals = i + 1
              /\ deriv_evals = i + 1
        /\ \A k \in 1..Len(steps) :
              npv_derivative(steps[k].rate, args.cash_flows).value # Zero
        /\ (/\ args.cash_flows.list
            /\ Len(args.cash_flows.items) = 1
            /\ result.kind # "ValueError") =>
              /\ i = 0
              /\ steps = <<>>
              /\ pc = "done" => /\ result.kind = "ZeroDivisionError"
                                /\ npv_evals = 1
                                /\ deriv_evals = 1

\* the derivative was zero in the second pass
C4_Witness ==
    /\ fn = "internal_rate_of_return"
    /\ result.kind = "ZeroDivisionError"
    /\ i = 1
    /\ Len(steps) = 1

\* C5: a call of internal_rate_of_return that has evaluated npv, so has passed
\* the entry checks and started the loop, and has ended, has returned a rate or
\* failed with ZeroDivisionError or with "IRR did not converge ...".
C5_NoFailureOfValidationAfterEntry ==
    (fn = "internal_rate_of_return" /\ pc = "done" /\ npv_evals > 0) =>
        \/ result.kind = "return"
        \/ result.kind = "ZeroDivisionError"
        \/ result.kind = "ValueError" /\ result.msg = DidNotConvergeText

\* C7: a rate irr returned by internal_rate_of_return called with the default
\* initial_guess, tolerance and max_iterations has |npv(irr, cash_flows)| < 1e-4.
C7_ResidualBelowTenThousandth ==
    (/\ fn = "internal_rate_of_return"
     /\ pc = "done"
     /\ result.kind = "return"
     /\ args.initial_guess = DefaultInitialGuess
     /\ args.tolerance = DefaultTolerance
     /\ args.max_iterations = DefaultMaxIterations) =>
        RatLt(RatAbs(npv(result.value, args.cash_flows).value), Frac(1, 10 ^ 4))

\* C7, amended: a rate irr returned by internal_rate_of_return called with the
\* defaults is the Newton update rate - npv(rate) / npv_derivative(rate) of the
\* last trial rate and lies within 1e-6 of it, that is |npv(rate)| <
\* 1e-6 * |npv_derivative(rate)| at that trial rate; |npv(irr)| has no bound.
C7_ReturnedRateIsSmallNewtonStep ==
    (/\ fn = "internal_rate_of_return"
     /\ pc = "done"
     /\ result.kind = "return"
     /\ args.initial_guess = DefaultInitialGuess
     /\ args.tolerance = DefaultTolerance
     /\ args.max_iterations = DefaultMaxIterations) =>
        /\ steps # <<>>
        /\ result.value =
              RatSub(steps[Len(steps)].rate,
                     RatDiv(npv(steps[Len(steps)].rate, args.cash_flows).value,
                            npv_derivative(steps[Len(steps)].rate, args.cash_flows).value))
        /\ RatLt(RatAbs(RatSub(result.value, steps[Len(steps)].rate)), Frac(1, 10 ^ 6))
        /\ RatLt(RatAbs(npv(steps[Len(steps)].rate, args.cash_flows).value),
                 RatMul(Frac(1, 10 ^ 6),
                        RatAbs(npv_derivative(steps[Len(steps)].rate, args.cash_flows).value)))

\* a rate has been returned under the defaults whose |npv| is 1e-4 or more
C7_Witness ==
    /\ fn = "internal_rate_of_return"
    /\ pc = "done"
    /\ result.kind = "return"
    /\ args.initial_guess = DefaultInitialGuess
    /\ args.tolerance = DefaultTolerance
    /\ args.max_iterations = DefaultMaxIterations
    /\ RatLe(Frac(1, 10 ^ 4), RatAbs(npv(result.value, args.cash_flows).value))

\* C10: in a call of internal_rate_of_return with a valid configuration npv and
\* npv_derivative have each been evaluated at most max_iterations times, once
\* for each pass begun, and every pass of the loop either ends the call or
\* moves on to the next index, which never exceeds max_iterations: the call
\* ends within max_iterations passes.
C10_WorkBoundedByMaxIterations ==
    /\ []((/\ fn = "internal_rate_of_return"
            /\ args.cash_flows.list
            /\ RatLt(FromInt(-1), args.initial_guess)
            /\ RatLt(Zero, args.tolerance)
            /\ args.max_iterations > 0) =>
             /\ npv_evals <= args.max_iterations
             /\ deriv_evals <= args.max_iterations
             /\ deriv_evals <= npv_evals
             /\ npv_evals <= i + 1
             /\ i <= args.max_iterations
             /\ Len(steps) <= npv_evals
             /\ pc = "loop" => npv_evals = i /\ deriv_evals = i)
    /\ [][pc = "loop" => \/ pc' = "done"
                         \/ pc' = "loop" /\ i' = i + 1 /\ i' <= args.max_iterations]_vars

\* a call has ended with max_iterations = 3 evaluations of npv
C10_Witness ==
    /\ fn = "internal_rate_of_return"
    /\ pc = "done"
    /\ args.max_iterations = 3
    /\ npv_evals = 3
    /\ deriv_evals = 3

----------------------------------------------------------------------------
(* Properties of npv, npv_derivative, bond_price, present_value and        *)
(* future_value                                                            *)

\* C6: npv and npv_derivative called with rate = -1 and a list that is not
\* empty have failed with the ValueError "Rate cannot be -1.", and bond_price
\* called with discount_rate = -1 has failed with a ValueError.
C6_RateMinusOneIsRejected ==
    /\ (/\ fn \in {"npv", "npv_derivative"}
        /\ pc = "done"
        /\ args.rate = FromInt(-1)
        /\ args.cash_flows.list
        /\ args.cash_flows.items # <<>>) =>
          result = Raise("ValueError", "Rate cannot be -1.")
    /\ (fn = "bond_price" /\ pc = "done" /\ args.discount_rate = FromInt(-1)) =>
          result.kind = "ValueError"

\* C8: bond_price has failed with ValueError exactly when face_value <= 0,
\* coupon_rate < 0, periods <= 0 or discount_rate < 0, and has otherwise
\* returned the sum over t = 1..periods of face_value * coupon_rate /
\* (1 + discount_rate)^t plus face_value / (1 + discount_rate)^periods.
C8_BondPriceRejectsOrReturnsTheSum ==
    (fn = "bond_price" /\ pc = "done") =>
        IF \/ RatLe(args.face_value, Zero)
           \/ RatLt(args.coupon_rate, Zero)
           \/ args.periods <= 0
           \/ RatLt(args.discount_rate, Zero)
        THEN result.kind = "ValueError"
        ELSE /\ result.kind = "return"
             /\ result.value =
                   RatAdd(Sum([t \in 1..args.periods |->
                                  RatDiv(RatMul(args.face_value, args.coupon_rate),
                                         RatPow(RatAdd(One, args.discount_rate), t))]),
                          RatDiv(args.face_value,
                                 RatPow(RatAdd(One, args.discount_rate), args.periods)))

\* C9: future_value called with rate >= 0 and periods >= 0 has returned a value
\* that present_value, with the same rate and periods, takes back to the amount
\* it was called with; and both have failed with ValueError when rate < 0 or
\* periods < 0.
C9_RoundTripForEveryRateAndPeriods ==
    /\ (fn = "future_value" /\ pc = "done") =>
          IF args.periods < 0 \/ RatLt(args.rate, Zero)
          THEN result.kind = "ValueError"
          ELSE /\ result.kind = "return"
               /\ present_value(args.rate, result.value, args.periods)
                     = Return(args.present_value)
    /\ (fn = "present_value" /\ (args.periods < 0 \/ RatLt(args.rate, Zero))) =>
          result.kind = "ValueError"

\* C9, amended: present_value called with a finite value future_value returned,
\* and with the same rate and periods, returns the amount future_value was
\* called with, and called with an inf that future_value returned it returns
\* that inf; future_value returns for rate >= 0 and periods >= 0 exactly when
\* (1 + rate)^periods is in the range of a float, a finite value exactly when
\* pv * (1 + rate)^periods is in that range too, and fails with the ValueError
\* "Result is too large to handle." when the power is not; both fail with
\* ValueError when rate < 0 or periods < 0.
C9_RoundTripWhereFutureValueReturns ==
    /\ (/\ fn = "present_value"
        /\ prev.fn = "future_value"
        /\ args.rate = prev.args.rate
        /\ args.periods = prev.args.periods) =>
          IF IsInfinite(prev.result.value)
          THEN result = prev.result
          ELSE result = Return(prev.args.present_value)
    /\ (fn = "future_value" /\ pc = "done") =>
          IF args.periods < 0
          THEN result = Raise("ValueError", "Periods cannot be negative.")
          ELSE IF RatLt(args.rate, Zero)
          THEN result = Raise("ValueError", "Rate cannot be negative.")
          ELSE IF OutOfRange(RatPow(RatAdd(One, args.rate), args.periods))
          THEN result = Raise("ValueError", "Result is too large to handle.")
          ELSE /\ result.kind = "return"
               /\ IsInfinite(result.value) <=>
                     OutOfRange(RatMul(args.present_value,
                                       RatPow(RatAdd(One, args.rate), args.periods)))
               /\ ~IsInfinite(result.value) =>
                     present_value(args.rate, result.value, args.periods)
                        = Return(args.present_value)
    /\ (fn = "present_value" /\ (args.periods < 0 \/ RatLt(args.rate, Zero))) =>
          result.kind = "ValueError"

\* an amount other than 0 has been taken over two periods or more at a rate
\* above 0, and back
C9_Witness ==
    /\ fn = "present_value"
    /\ prev.fn = "future_value"
    /\ args.rate = prev.args.rate
    /\ args.periods = prev.args.periods
    /\ args.periods >= 2
    /\ RatLt(Zero, args.rate)
    /\ prev.args.present_value # Zero
    /\ result.kind = "return"

====
